---- MODULE Spec2Model ----
(***************************************************************************)
(* A model of mage, the dotfiles linker: origin classification,           *)
(* materialization (clone_repo and the clone command), manifest expansion, *)
(* the link / clean / sync commands over a small filesystem with the error *)
(* summary they print, path resolution, and the setup command's configure  *)
(* with its install check.                                                 *)
(*                                                                         *)
(* Strings are sequences of one-character strings, so that the regular     *)
(* expressions of dotfiles.rs and the path handling of util.rs are         *)
(* computed character by character, as the code computes them.             *)
(***************************************************************************)
EXTENDS Integers, Sequences, FiniteSets, TLC

VARIABLES
    raw,        \* from_str: the origin string handed to the parser
    disk,       \* from_str: what the paths the parser probes are on disk
    parsed,     \* from_str: the Result<DotfilesOrigin> it returned
    cpc,        \* from_str: "input" before the call, "parsed" after it
    fs,         \* the filesystem the link and clean engines act on
    opts,       \* direct calls: the ProgramOptions the calls are made on
    calls,      \* direct calls: the log of configure / undo calls made so far
    dotfiles,   \* the dotfiles directory: its listing and its magefiles
    pc,         \* commands: "idle", "linking" (configure runs) or "cleaning"
    cur,        \* commands: the command running, with the disk it started on
    programs,   \* commands: the Vec<ProgramOptions> the command expanded
    wpc,        \* link: where each parallel worker is in Configure::configure
    wout,       \* link: the Result each worker returned
    order,      \* link: the workers in the order they finished
    results,    \* clean: the results collected so far
    log,        \* commands: the commands that have returned, with their results
    mat,        \* materialization: the call made, its arguments, what git will do
    mout,       \* materialization: what the call returned and did
    expanded,   \* expansion: what read_dotfiles returned for the directory
    resolved    \* path resolution: what get_full_path returned for raw

----------------------------------------------------------------------------
(* Bounds of the model.                                                    *)

\* how many configure / undo calls are made in a row on one descriptor
MaxCalls == 2

\* how many commands are run one after another
MaxCmds == 2

----------------------------------------------------------------------------
(* Strings and paths.                                                      *)

Str == Seq(STRING)

RECURSIVE SplitAt(_, _, _)
\* std::path::Path::iter: the components of a path string, split on "/",
\* empty components (repeated or trailing separators) dropped.
SplitAt(s, i, seg) ==
    IF i > Len(s)
    THEN IF seg = <<>> THEN <<>> ELSE <<seg>>
    ELSE IF s[i] = "/"
         THEN (IF seg = <<>> THEN <<>> ELSE <<seg>>) \o SplitAt(s, i + 1, <<>>)
         ELSE SplitAt(s, i + 1, Append(seg, s[i]))

\* PathBuf::from(s): a path is absolute iff it begins with "/"; segs are its
\* normal components in order.
PathBuf(s) ==
    [abs |-> (Len(s) > 0 /\ s[1] = "/"), segs |-> SplitAt(s, 1, <<>>)]

NoPath == [abs |-> FALSE, segs |-> <<>>]

\* the HOME environment variable: /h
HOME == PathBuf(<<"/","h">>)

Tilde == <<"~">>

\* Path::starts_with("~"): component-wise prefix, so the first component is
\* exactly "~" and the path is relative.
StartsWithTilde(p) == ~p.abs /\ Len(p.segs) > 0 /\ p.segs[1] = Tilde

RECURSIVE DropTildes(_)
\* the loop body of get_full_path: every component that is not "~" is pushed
DropTildes(segs) ==
    IF segs = <<>> THEN <<>>
    ELSE (IF Head(segs) = Tilde THEN <<>> ELSE <<Head(segs)>>)
         \o DropTildes(Tail(segs))

\* util::get_full_path: expands `~` to the home directory
get_full_path(p) ==
    IF StartsWithTilde(p)
    THEN [abs |-> HOME.abs, segs |-> HOME.segs \o DropTildes(p.segs)]
    ELSE p

----------------------------------------------------------------------------
(* Regular expressions, as the regex crate matches them: Regex::find       *)
(* returns the leftmost match, and among the matches at that start the one *)
(* that greedy repetition prefers.                                         *)

Lit(c) == [t |-> "lit", c |-> c, cls |-> {}]
AnyChar == [t |-> "any", c |-> "", cls |-> {}]
Plus(cls) == [t |-> "plus", c |-> "", cls |-> cls]

RECURSIVE ReText(_)
\* a run of pattern text: "." is the any-character atom, everything else a
\* literal
ReText(s) ==
    IF s = <<>> THEN <<>>
    ELSE <<IF Head(s) = "." THEN AnyChar ELSE Lit(Head(s))>> \o ReText(Tail(s))

Upper == {"A","B","C","D","E","F","G","H","I","J","K","L","M","N","O","P","Q",
          "R","S","T","U","V","W","X","Y","Z"}
Lower == {"a","b","c","d","e","f","g","h","i","j","k","l","m","n","o","p","q",
          "r","s","t","u","v","w","x","y","z"}
Digits == {"0","1","2","3","4","5","6","7","8","9"}

\* the range A-z of the patterns: code points 0x41 to 0x7A, which besides the
\* letters holds the punctuation between Z and a (of it, the alphabet here
\* has the brackets, the caret and the underscore)
RangeAz == Upper \cup Lower \cup {"[", "]", "^", "_"}

\* [A-z-\d]
OwnerClass == RangeAz \cup {"-"} \cup Digits
\* [A-z-\d_]
RepoClass == RangeAz \cup {"-"} \cup Digits \cup {"_"}

RECURSIVE RunLen(_, _, _)
\* how many characters of s from position i on lie in cls
RunLen(cls, s, i) ==
    IF i > Len(s) \/ s[i] \notin cls THEN 0 ELSE 1 + RunLen(cls, s, i + 1)

NoMatch == 0 - 1

RECURSIVE MatchFrom(_, _, _, _)
RECURSIVE TryPlus(_, _, _, _, _)
\* the position after the match of re[k..] at s[i..] that backtracking with
\* greedy repetition finds first, or NoMatch
MatchFrom(re, k, s, i) ==
    IF k > Len(re) THEN i
    ELSE IF re[k].t = "plus"
         THEN TryPlus(re, k, s, i, RunLen(re[k].cls, s, i))
         ELSE IF i > Len(s) THEN NoMatch
              ELSE IF re[k].t = "any" \/ s[i] = re[k].c
                   THEN MatchFrom(re, k + 1, s, i + 1)
                   ELSE NoMatch

\* greedy +: the longest run first, then shorter ones, never an empty one
TryPlus(re, k, s, i, n) ==
    IF n < 1 THEN NoMatch
    ELSE IF MatchFrom(re, k + 1, s, i + n) # NoMatch
         THEN MatchFrom(re, k + 1, s, i + n)
         ELSE TryPlus(re, k, s, i, n - 1)

RECURSIVE FindFrom(_, _, _)
\* Regex::find(s): the length of the leftmost match, or NoMatch
FindFrom(re, s, i) ==
    IF i > Len(s) + 1 THEN NoMatch
    ELSE IF MatchFrom(re, 1, s, i) # NoMatch
         THEN MatchFrom(re, 1, s, i) - i
         ELSE FindFrom(re, s, i + 1)

\* r.find(s).is_some(): a match anywhere in s is enough
FindsSome(re, s) == FindFrom(re, s, 1) # NoMatch

\* r.find(s).is_some_and(|m| m.len() == s.len())
FindsWhole(re, s) == FindFrom(re, s, 1) = Len(s)

OwnerRepo == <<Plus(OwnerClass), Lit("/"), Plus(RepoClass)>>

\* git@github.com:[A-z-\d]+\/[A-z-\d_]+.git
SshRe ==
    ReText(<<"g","i","t","@","g","i","t","h","u","b",".","c","o","m",":">>)
    \o OwnerRepo \o ReText(<<".","g","i","t">>)

\* https://github.com/[A-z-\d]+\/[A-z-\d_]+.git
HttpsRe ==
    ReText(<<"h","t","t","p","s",":","/","/","g","i","t","h","u","b",".","c","o","m","/">>)
    \o OwnerRepo \o ReText(<<".","g","i","t">>)

\* [A-z-\d]+\/[A-z-\d_]+
repo_re == OwnerRepo

RECURSIVE Ends(_, _, _, _)
\* the language of a pattern, apart from any search order: every position at
\* which some match of re[k..] that starts at s[i..] can end
Ends(re, k, s, i) ==
    IF k > Len(re) THEN {i}
    ELSE IF re[k].t = "plus"
         THEN UNION {Ends(re, k + 1, s, i + n) : n \in 1..RunLen(re[k].cls, s, i)}
         ELSE IF i <= Len(s) /\ (re[k].t = "any" \/ s[i] = re[k].c)
              THEN Ends(re, k + 1, s, i + 1)
              ELSE {}

\* the pattern matches s from its first character to its last
ConsumesAll(re, s) == (Len(s) + 1) \in Ends(re, 1, s, 1)

\* the pattern matches some substring of s
ContainsMatch(re, s) == \E i \in 1..(Len(s) + 1) : Ends(re, 1, s, i) # {}

----------------------------------------------------------------------------
(* DotfilesOrigin::from_str.                                               *)

\* what Path::is_dir / Path::exists see at a path: the disk maps the paths
\* the parser can probe to "none", "file" or "dir"
DiskKind(p) == IF p \in DOMAIN disk THEN disk[p] ELSE "none"

is_dir(s) == DiskKind(PathBuf(s)) = "dir"

is_valid_repo_url(s) == FindsWhole(SshRe, s) \/ FindsWhole(HttpsRe, s)

is_github_repo(s) ==
    IF is_valid_repo_url(s) THEN TRUE
    ELSE IF DiskKind(PathBuf(s)) # "none" THEN FALSE
         ELSE FindsWhole(repo_re, s)

full_repo_url(s) ==
    <<"g","i","t","@","g","i","t","h","u","b",".","c","o","m","/">>
    \o s \o <<".","g","i","t">>

default_location == <<"~","/",".","m","a","g","e">>

Directory(p) == [tag |-> "Directory", path |-> p, url |-> <<>>, dest |-> <<>>]
Repository(u, d) == [tag |-> "Repository", path |-> NoPath, url |-> u, dest |-> d]
OriginErr == [tag |-> "Err", path |-> NoPath, url |-> <<>>, dest |-> <<>>]
NotParsed == [tag |-> "None", path |-> NoPath, url |-> <<>>, dest |-> <<>>]

\* from_str with the URL arm tried before the directory arm
from_str_url_first(s) ==
    IF is_valid_repo_url(s) THEN Repository(s, default_location)
    ELSE IF is_dir(s) THEN Directory(PathBuf(s))
    ELSE IF is_github_repo(s) THEN Repository(full_repo_url(s), default_location)
    ELSE OriginErr

from_str(s) ==
    IF is_dir(s) THEN Directory(PathBuf(s))
    ELSE IF is_valid_repo_url(s) THEN Repository(s, default_location)
    ELSE IF is_github_repo(s) THEN Repository(full_repo_url(s), default_location)
    ELSE OriginErr

\* the origin strings the parser is tried on
OriginInputs == {
    <<>>,
    <<"/","t","m","p">>,
    <<"z","z">>,
    <<"o","/","r">>,
    <<"O","-","1","/","r","_","2">>,
    <<"o","/","r","/","x">>,
    <<"g","i","t","@","g","i","t","h","u","b",".","c","o","m",":","o","/","r",".","g","i","t">>,
    <<"g","i","t","@","g","i","t","h","u","b","X","c","o","m",":","o","/","r","X","g","i","t">>,
    <<"h","t","t","p","s",":","/","/","g","i","t","h","u","b",".","c","o","m","/","o","/","r",".","g","i","t">>,
    <<"h","t","t","p","s",":","/","/","g","i","t","h","u","b",".","c","o","m","/","o","/","r",".","g","i","t","/","x">>,
    <<"~">>,
    <<"~","/","d">>,
    <<"~","/","o","/","r">> }

Kinds == {"none", "file", "dir"}

----------------------------------------------------------------------------
(* The filesystem the engines act on.                                      *)
(*                                                                         *)
(* Every target path lies in one parent directory.  fs.parent is what that *)
(* directory is: "dir", "missing" (it can be created), "blocked" (missing, *)
(* and an ancestor is a regular file, so it cannot be created) or "file"   *)
(* (a regular file sits where the directory should be).  fs.tgt[t] is what *)
(* sits at target path t, fs.org[e] what sits at entry e of the dotfiles   *)
(* directory.                                                              *)

Targets == {"t1", "t2"}
Entries == {"e1", "e2"}

\* what a symlink holds: the origin path it was given.  An origin path
\* is the dotfiles directory joined with the entry name; it is absolute only
\* if the directory was (nothing canonicalizes it).  "other" and "gone" are
\* paths outside the dotfiles directory, one existing and one not.
Ref(to, abs) == [to |-> to, abs |-> abs]
NoRef == Ref("none", TRUE)

\* mine: the node belongs to the user running mage.  The parent is a sticky
\* directory, as /tmp is: a node of another user cannot be removed from it.
Nothing == [kind |-> "none", ref |-> NoRef, mine |-> TRUE]
RealFile == [kind |-> "file", ref |-> NoRef, mine |-> TRUE]
RealDir == [kind |-> "dir", ref |-> NoRef, mine |-> TRUE]
Link(r) == [kind |-> "link", ref |-> r, mine |-> TRUE]
ForeignLink == [kind |-> "link", ref |-> Ref("other", TRUE), mine |-> FALSE]

\* what a path read through a symlink resolves to.  A relative origin path
\* is resolved against the directory of the link, the targets' parent, which
\* holds no copy of the dotfiles tree.
RefKind(f, r) ==
    IF r.to = "other" THEN "file"
    ELSE IF r.to \in Entries /\ r.abs THEN f.org[r.to]
    ELSE "none"

\* Path::symlink_metadata succeeds: something sits at t, a link included
lexists(f, t) == f.parent = "dir" /\ f.tgt[t].kind # "none"

\* Path::exists: follows symbolic links, so a link whose referent is
\* missing does not exist
exists(f, t) ==
    /\ lexists(f, t)
    /\ f.tgt[t].kind = "link" => RefKind(f, f.tgt[t].ref) # "none"

\* Path::exists in the place of is_symlink, links not followed: anything
\* that sits at the path
is_anything(f, t) == lexists(f, t)

\* Path::is_symlink: does not follow the link
is_symlink(f, t) == lexists(f, t) /\ f.tgt[t].kind = "link"

\* Path::exists of the parent: a regular file in its place exists too
parent_exists(f) == f.parent \in {"dir", "file"}

IoOk(f, n) == [ok |-> TRUE, fs |-> f, muts |-> n]
IoErr(f) == [ok |-> FALSE, fs |-> f, muts |-> 0]

\* fs::create_dir in its place: a directory that is already there is an error
create_dir(f) ==
    IF f.parent = "missing" THEN IoOk([f EXCEPT !.parent = "dir"], 1)
    ELSE IoErr(f)

\* fs::create_dir_all(parent): a directory that is already there, created
\* by another thread since the test included, is no error
create_dir_all(f) ==
    IF f.parent = "dir" THEN IoOk(f, 0)
    ELSE IF f.parent = "missing" THEN IoOk([f EXCEPT !.parent = "dir"], 1)
    ELSE IoErr(f)

\* a symlink call that replaces what sits at link, as `ln -sf` does
symlink_force(f, original, t) ==
    IF f.parent = "dir" THEN IoOk([f EXCEPT !.tgt[t] = Link(original)], 1)
    ELSE IoErr(f)

\* std::os::unix::fs::symlink(original, link): fails if anything, a dangling
\* link included, sits at link, or if the parent is no directory
symlink(f, original, t) ==
    IF f.parent = "dir" /\ f.tgt[t].kind = "none"
    THEN IoOk([f EXCEPT !.tgt[t] = Link(original)], 1)
    ELSE IoErr(f)

\* remove_dir_all following the link: the referent goes with the link
remove_dir_all_follows(f, t) ==
    IF lexists(f, t) /\ f.tgt[t].kind \in {"link", "dir"} /\ f.tgt[t].mine
    THEN IoOk([f EXCEPT !.tgt[t] = Nothing,
                        !.org = [e \in Entries |->
                                   IF f.tgt[t].kind = "link" /\ f.tgt[t].ref = Ref(e, TRUE)
                                   THEN "none" ELSE f.org[e]]], 1)
    ELSE IoErr(f)

\* fs::remove_dir_all(path): does not follow a symbolic link, it removes the
\* link itself; removes a real directory with its contents; fails on a
\* regular file, on a missing path and on a node of another user
remove_dir_all(f, t) ==
    IF lexists(f, t) /\ f.tgt[t].kind \in {"link", "dir"} /\ f.tgt[t].mine
    THEN IoOk([f EXCEPT !.tgt[t] = Nothing], 1)
    ELSE IoErr(f)

----------------------------------------------------------------------------
(* The link engine: Configure::configure, one descriptor.                  *)

ProgramOptions(name, path, target_path) ==
    [name |-> name, path |-> path, target_path |-> target_path]

\* the Result<()> of one descriptor, with the message it showed and the
\* mutations it made.  "already configured" is the outcome the specification
\* calls AlreadyLinked, "configured" the one it calls Linked.
Outcome(ok, msg, f, n) == [ok |-> ok, msg |-> msg, fs |-> f, muts |-> n]

ensure_path_ok(f) ==
    IF ~parent_exists(f) THEN create_dir_all(f) ELSE IoOk(f, 0)

configure_one(f, o) ==
    IF exists(f, o.target_path)
    THEN Outcome(TRUE, "already configured", f, 0)
    ELSE LET p == ensure_path_ok(f) IN
         IF ~p.ok THEN Outcome(FALSE, "create parent failed", f, 0)
         ELSE LET s == symlink(p.fs, o.path, o.target_path) IN
              IF ~s.ok THEN Outcome(FALSE, "symlink failed", p.fs, p.muts)
              ELSE Outcome(TRUE, "configured", s.fs, p.muts + s.muts)

\* the descriptor of the setup command: it also has the optional
\* is_installed_cmd, "None" or "Some"
SetupOptions(o, is_installed_cmd) ==
    [name |-> o.name, path |-> o.path, target_path |-> o.target_path,
     is_installed_cmd |-> is_installed_cmd]

\* what `sh -c cmd` does when it is run: the process cannot be started, it
\* exits with a non-zero status, or it exits with zero
ShellOutcomes == {"nostart", "nonzero", "zero"}

\* is_installed with a shell that cannot be run counted as success
is_installed_lenient(sh) == sh # "nonzero"

\* is_installed: Command::new("sh").arg("-c").arg(cmd).output()
\*     .map(|out| out.status.success()).unwrap_or_default()
is_installed(sh) == sh = "zero"

Details(c, details, ran) ==
    [ok |-> c.ok, msg |-> c.msg, fs |-> c.fs, muts |-> c.muts,
     details |-> details, ran |-> ran]

\* setup: Configure<ConfigureDetails>::configure, the shell doing sh when
\* the command is run
setup_configure(f, o, sh) ==
    IF exists(f, o.target_path)
    THEN Details(Outcome(TRUE, "already configured", f, 0), "Installed", FALSE)
    ELSE LET p == ensure_path_ok(f) IN
         IF ~p.ok
         THEN Details(Outcome(FALSE, "create parent failed", f, 0), "none", FALSE)
         ELSE LET s == symlink(p.fs, o.path, o.target_path) IN
              IF ~s.ok
              THEN Details(Outcome(FALSE, "symlink failed", p.fs, p.muts), "none", FALSE)
              ELSE Details(Outcome(TRUE, "configured", s.fs, p.muts + s.muts),
                           IF o.is_installed_cmd = "Some"
                           THEN IF is_installed(sh) THEN "Installed" ELSE "NotInstalled"
                           ELSE "Installed",
                           o.is_installed_cmd = "Some")

----------------------------------------------------------------------------
(* The unlink engine: Undo::undo, one descriptor.                          *)

\* undo without the is_symlink test: whatever exists at the target is removed
undo_any(f, o) ==
    IF exists(f, o.target_path)
    THEN LET r == remove_dir_all(f, o.target_path) IN
         IF ~r.ok THEN Outcome(FALSE, "delete symlink failed", f, 0)
         ELSE Outcome(TRUE, "cleaned", r.fs, r.muts)
    ELSE Outcome(TRUE, "skipping", f, 0)

undo(f, o) ==
    IF exists(f, o.target_path) /\ is_symlink(f, o.target_path)
    THEN LET r == remove_dir_all(f, o.target_path) IN
         IF ~r.ok THEN Outcome(FALSE, "delete symlink failed", f, 0)
         ELSE Outcome(TRUE, "cleaned", r.fs, r.muts)
    ELSE Outcome(TRUE, "skipping", f, 0)

----------------------------------------------------------------------------
(* Filesystem states and descriptors the engines are tried on.             *)

OriginRefs == {Ref(e, a) : e \in Entries, a \in BOOLEAN}

\* what may sit at a target before a command runs
TargetNodes ==
    {Nothing, RealFile, RealDir, Link(Ref("e1", TRUE)), ForeignLink,
     Link(Ref("gone", TRUE))}

\* a target can hold something only if the parent is a directory
FsStates ==
    {[parent |-> p, tgt |-> tg, org |-> og] :
        p \in {"dir", "missing", "blocked", "file"},
        tg \in [Targets -> TargetNodes],
        og \in [Entries -> Kinds]}

FsOk(f) == f.parent # "dir" => \A t \in Targets : f.tgt[t] = Nothing

Descriptors ==
    {ProgramOptions(r.to, r, t) : r \in OriginRefs, t \in Targets}

----------------------------------------------------------------------------
(* The dotfiles directory and the magefile.                                *)
(*                                                                         *)
(* dotfiles.listing is what read_dir yields, in directory-listing order;   *)
(* dotfiles.magefiles maps each magefile of the listing to its content:    *)
(* whether it parses, and the table it parses to, a sequence of            *)
(* [key, target_path] in file order, target_path "missing" when the entry  *)
(* has no such key.  Target paths stand for their get_full_path form.      *)

FileName(n) ==
    CASE n = "e1" -> <<"e","1">>
      [] n = "e2" -> <<"e","2">>
      [] n = "magefile.toml" -> <<"m","a","g","e","f","i","l","e",".","t","o","m","l">>
      [] n = "magefile.bak" -> <<"m","a","g","e","f","i","l","e",".","b","a","k">>
      [] OTHER -> <<>>

StartsWith(s, pre) == Len(s) >= Len(pre) /\ SubSeq(s, 1, Len(pre)) = pre

\* entry.file_name().starts_with("magefile")
is_magefile(n) == StartsWith(FileName(n), <<"m","a","g","e","f","i","l","e">>)

Entry(k, t) == [key |-> k, target_path |-> t]

contains_key(table, k) == \E i \in DOMAIN table : table[i].key = k
get(table, k) == table[CHOOSE i \in DOMAIN table : table[i].key = k]

\* the Result of the steps before the batch: the descriptors, or the fatal
\* error with the phase it arose in and its message (a tuple: the text and,
\* where the text names an entry, the entry)
Expanded(progs) == [ok |-> TRUE, phase |-> "batch", msg |-> <<>>, programs |-> progs]
Fatal(phase, msg) == [ok |-> FALSE, phase |-> phase, msg |-> msg, programs |-> <<>>]

\* TryFrom<(&Table, String, PathBuf)> for ProgramOptions
try_from(table, name, path) ==
    IF ~contains_key(table, name) THEN Fatal("expand", <<"find from magefile", name>>)
    ELSE IF get(table, name).target_path = "missing"
         THEN Fatal("expand", <<"missing key: target_path", name>>)
    ELSE Expanded(<<ProgramOptions(name, path, get(table, name).target_path)>>)

RECURSIVE ScanDir(_, _, _, _, _)
\* the first loop of read_dotfiles: every magefile met replaces mage_config,
\* a magefile that does not parse ends the scan with its error, every other
\* entry is pushed with its path, the directory joined with its name
ScanDir(d, abs, i, config, progs) ==
    IF i > Len(d.listing)
    THEN [ok |-> TRUE, config |-> config, progs |-> progs]
    ELSE LET n == d.listing[i] IN
         IF is_magefile(n)
         THEN IF ~d.magefiles[n].valid
              THEN [ok |-> FALSE, config |-> config, progs |-> progs]
              ELSE ScanDir(d, abs, i + 1, <<d.magefiles[n].table>>, progs)
         ELSE ScanDir(d, abs, i + 1, config,
                      Append(progs, [name |-> n, path |-> Ref(n, abs)]))

RECURSIVE Convert(_, _, _, _)
\* the second loop of read_dotfiles: the first entry that fails to convert
\* ends the expansion with its error
Convert(table, progs, i, acc) ==
    IF i > Len(progs) THEN Expanded(acc)
    ELSE LET r == try_from(table, progs[i].name, progs[i].path) IN
         IF ~r.ok THEN r
         ELSE Convert(table, progs, i + 1, acc \o r.programs)

\* read_dotfiles going by the keys of the magefile instead of the entries
\* of the directory: every key is converted, with the path an entry of its
\* name would have
read_dotfiles_by_key(d, abs) ==
    LET scan == ScanDir(d, abs, 1, <<>>, <<>>) IN
    IF ~scan.ok THEN Fatal("manifest", <<"Failed to parse magefile">>)
    ELSE IF scan.config = <<>> THEN Fatal("manifest", <<"magefile not found">>)
    ELSE LET table == scan.config[1]
             keys == [i \in DOMAIN table |->
                        [name |-> table[i].key, path |-> Ref(table[i].key, abs)]]
         IN Convert(table, keys, 1, <<>>)

\* dotfiles::read_dotfiles
read_dotfiles(d, abs) ==
    LET scan == ScanDir(d, abs, 1, <<>>, <<>>) IN
    IF ~scan.ok THEN Fatal("manifest", <<"Failed to parse magefile">>)
    ELSE IF scan.config = <<>> THEN Fatal("manifest", <<"magefile not found">>)
    ELSE LET table == scan.config[1]
             kept == SelectSeq(scan.progs, LAMBDA q : contains_key(table, q.name))
         IN Convert(table, kept, 1, <<>>)

\* what `git clone url path` does when it is run: the process cannot be
\* started ("nostart"), it exits with a non-zero status and leaves nothing
\* behind ("nonzero"), or it exits with zero and path is the clone ("ok")
GitOutcomes == {"nostart", "nonzero", "ok"}

Cloned(ok, invoked, msg, d) == [ok |-> ok, invoked |-> invoked, msg |-> msg, disk |-> d]

\* Command::new("git").args(["clone", url, path]).output(): Err when the
\* process cannot be started, Ok(Output) with its exit status otherwise
git_clone(path, git) ==
    [started |-> git # "nostart",
     disk |-> IF git = "ok" THEN [disk EXCEPT ![PathBuf(path)] = "dir"] ELSE disk]

\* clone_repo without the test of the target path
clone_repo_unchecked(url, path, git) ==
    LET g == git_clone(path, git) IN
    IF ~g.started THEN Cloned(FALSE, TRUE, "spawn failed", g.disk)
    ELSE Cloned(TRUE, TRUE, "", g.disk)

\* dotfiles::clone_repo: refuses an existing path; otherwise runs git clone,
\* fails if the process cannot be started, and returns Ok(path) whatever the
\* exit status of git
clone_repo(url, path, git) ==
    IF DiskKind(PathBuf(path)) # "none"
    THEN Cloned(FALSE, FALSE, "Target path already exists", disk)
    ELSE LET g == git_clone(path, git) IN
         IF ~g.started THEN Cloned(FALSE, TRUE, "spawn failed", g.disk)
         ELSE Cloned(TRUE, TRUE, "", g.disk)

\* TryFrom<DotfilesOrigin> for ReadDir: read_dir of the directory, or
\* clone_repo and read_dir of the path it returns
try_into(o, git) ==
    IF o.tag = "Directory"
    THEN IF DiskKind(o.path) = "dir"
         THEN Cloned(TRUE, FALSE, "", disk)
         ELSE Cloned(FALSE, FALSE, "read dotfiles dir", disk)
    ELSE LET c == clone_repo(o.url, o.dest, git) IN
         IF ~c.ok THEN c
         ELSE IF c.disk[PathBuf(o.dest)] = "dir" THEN c
              ELSE Cloned(FALSE, c.invoked, "clone and read repository", c.disk)

\* PathBuf::to_str: the components joined with "/"
RECURSIVE Join(_)
Join(segs) ==
    IF segs = <<>> THEN <<>>
    ELSE IF Len(segs) = 1 THEN segs[1]
         ELSE segs[1] \o <<"/">> \o Join(Tail(segs))

to_str(p) == (IF p.abs THEN <<"/">> ELSE <<>>) \o Join(p.segs)

\* clone::execute
clone_execute(repository, directory, git) ==
    LET full_dir_path == to_str(get_full_path(PathBuf(directory)))
        o == from_str(repository)
    IN IF o.tag = "Err" THEN Cloned(FALSE, FALSE, "invalid origin", disk)
       ELSE IF o.tag = "Repository" THEN clone_repo(o.url, full_dir_path, git)
            ELSE Cloned(FALSE, FALSE, "Invalid repository", disk)

RECURSIVE ConvertedBefore(_, _, _, _)
\* the descriptors converted before the first entry that fails to convert
ConvertedBefore(table, progs, i, acc) ==
    IF i > Len(progs) THEN acc
    ELSE LET r == try_from(table, progs[i].name, progs[i].path) IN
         IF ~r.ok THEN acc
         ELSE ConvertedBefore(table, progs, i + 1, acc \o r.programs)

\* init::run handing over the descriptors as they are converted: when an
\* entry fails to convert, the ones converted before it are already linked
link_init_lazy(dir, git) ==
    LET o == from_str(dir) IN
    IF o.tag = "Err"
    THEN [r |-> Fatal("origin", <<"I do not how to get dotfiles with this">>),
          disk |-> disk]
    ELSE LET c == try_into(o, git) IN
         IF ~c.ok THEN [r |-> Fatal("origin", <<c.msg>>), disk |-> c.disk]
         ELSE LET abs == IF o.tag = "Directory" THEN o.path.abs
                         ELSE PathBuf(o.dest).abs
                  scan == ScanDir(dotfiles, abs, 1, <<>>, <<>>)
                  r == read_dotfiles(dotfiles, abs)
              IN [r |-> IF r.ok \/ r.phase # "expand" THEN r
                        ELSE Expanded(ConvertedBefore(scan.config[1],
                                 SelectSeq(scan.progs,
                                     LAMBDA q : contains_key(scan.config[1], q.name)),
                                 1, <<>>)),
                  disk |-> c.disk]

\* link::init::run: parse the origin, TryFrom<DotfilesOrigin> for ReadDir
\* (read_dir of the directory, or clone_repo and read_dir of the clone),
\* then read_dotfiles
link_init(dir, git) ==
    LET o == from_str(dir) IN
    IF o.tag = "Err"
    THEN [r |-> Fatal("origin", <<"I do not how to get dotfiles with this">>),
          disk |-> disk]
    ELSE LET c == try_into(o, git) IN
         IF ~c.ok THEN [r |-> Fatal("origin", <<c.msg>>), disk |-> c.disk]
         ELSE [r |-> read_dotfiles(dotfiles,
                        IF o.tag = "Directory" THEN o.path.abs
                        ELSE PathBuf(o.dest).abs),
               disk |-> c.disk]

RECURSIVE FirstMagefile(_, _)
FirstMagefile(listing, i) ==
    IF i > Len(listing) THEN 0
    ELSE IF is_magefile(listing[i]) THEN i ELSE FirstMagefile(listing, i + 1)

\* dotfiles::find_magefile: the first entry of the directory whose name
\* starts with "magefile", read and parsed
find_magefile(d, full_path) ==
    IF DiskKind(full_path) # "dir"
    THEN [ok |-> FALSE, msg |-> <<"read dotfiles dir">>, table |-> <<>>]
    ELSE LET i == FirstMagefile(d.listing, 1) IN
         IF i = 0 THEN [ok |-> FALSE, msg |-> <<"Magefile not found">>, table |-> <<>>]
         ELSE IF ~d.magefiles[d.listing[i]].valid
              THEN [ok |-> FALSE, msg |-> <<"Failed to parse magefile">>, table |-> <<>>]
              ELSE [ok |-> TRUE, msg |-> <<>>, table |-> d.magefiles[d.listing[i]].table]

RECURSIVE generate_from(_, _, _, _)
generate_from(table, abs, i, acc) ==
    IF i > Len(table) THEN Expanded(acc)
    ELSE IF table[i].target_path = "missing"
         THEN Fatal("expand", <<"missing key: target_path", table[i].key>>)
    ELSE generate_from(table, abs, i + 1,
            Append(acc, ProgramOptions(table[i].key, Ref(table[i].key, abs),
                                       table[i].target_path)))

\* dotfiles::generate_options: one descriptor per key of the magefile, in
\* the order of the table; the first key without target_path ends it
generate_options(table, full_path) == generate_from(table, full_path.abs, 1, <<>>)

\* clean::execute without the ? on find_magefile: a directory without a
\* magefile is cleaned as one with an empty magefile
clean_init_unlocated(dir) ==
    LET full_path == get_full_path(PathBuf(dir)) IN
    IF DiskKind(full_path) = "none" THEN Fatal("origin", <<"invalid path">>)
    ELSE LET m == find_magefile(dotfiles, full_path) IN
         generate_options(m.table, full_path)

\* clean::execute up to the batch: get_full_path, the existence test,
\* find_magefile and generate_options
clean_init(dir) ==
    LET full_path == get_full_path(PathBuf(dir)) IN
    IF DiskKind(full_path) = "none" THEN Fatal("origin", <<"invalid path">>)
    ELSE LET m == find_magefile(dotfiles, full_path) IN
         IF ~m.ok THEN Fatal("manifest", m.msg)
         ELSE generate_options(m.table, full_path)

----------------------------------------------------------------------------
(* The batches.                                                            *)

Res(ok, msg) == [ok |-> ok, msg |-> msg]
Pending == Res(TRUE, "pending")

\* collecting into a Result of a Vec instead: the first failure ends the batch
stops_at_error(outs) == \A i \in DOMAIN outs : outs[i].ok

\* collecting the mapped iterator into a Vec of Results consumes every item:
\* a failed item stops nothing
keeps_going(outs) == TRUE

\* the results in the order the workers finished
collect_by_completion(outs, ord) == [k \in DOMAIN ord |-> outs[ord[k]]]

\* rayon collects an indexed parallel iterator by index, not by completion
collect(outs, ord) == outs

\* a command that fails when one of its descriptors failed
fails_on_error(res) == IF \E i \in DOMAIN res : ~res[i].ok THEN "Err" ELSE "Ok"

\* link::execute and clean::execute end in show_errors(..); Ok(())
link_execute_returns(res) == "Ok"
clean_execute_returns(res) == "Ok"

Failed(res) == {i \in DOMAIN res : ~res[i].ok}

\* a text is the sequence of its pieces, NL the line feed among them
NL == "\n"

\* what a command wrote to stderr about its batch: whether it printed, and
\* the string it built after "Some errors occurred:"
Shown(printed, text) == [printed |-> printed, text |-> text]
NotShown == Shown(FALSE, <<>>)

RECURSIVE PushErrors(_, _, _)
PushErrors(result, i, msg) ==
    IF i > Len(result) THEN msg
    ELSE PushErrors(result, i + 1,
                    IF ~result[i].ok THEN msg \o <<result[i].msg, NL>> ELSE msg)

\* util::show_errors, the one clean uses: msg.push_str(format!("{}\n", e))
\* for every Err, printed if msg is not empty
show_errors(result) ==
    LET msg == PushErrors(result, 1, <<>>) IN Shown(msg # <<>>, msg)

\* link.rs show_errors, the map: the error's to_string(), "" for an Ok
ErrorStrings(result) ==
    [i \in DOMAIN result |-> IF ~result[i].ok THEN <<result[i].msg>> ELSE <<>>]

\* Iterator::reduce: the first item is the accumulator the closure starts
\* with; format!("{acc}\n{e}") for every later item that is not empty
RECURSIVE Reduce(_, _, _)
Reduce(strs, i, acc) ==
    IF i > Len(strs) THEN acc
    ELSE Reduce(strs, i + 1,
                IF strs[i] = <<>> THEN acc ELSE acc \o <<NL>> \o strs[i])

\* link.rs show_errors: reduce gives None for an empty batch; nothing is
\* printed for None and for an empty string
link_show_errors(result) ==
    IF Len(result) = 0 THEN NotShown
    ELSE LET errors == Reduce(ErrorStrings(result), 2, ErrorStrings(result)[1])
         IN Shown(errors # <<>>, errors)

\* str::lines: the text cut at every line feed; a last line that is empty
\* (the text ends with a line feed, or is empty) is no line
RECURSIVE LinesFrom(_, _, _, _)
LinesFrom(text, i, line, acc) ==
    IF i > Len(text) THEN IF line = <<>> THEN acc ELSE Append(acc, line)
    ELSE IF text[i] = NL THEN LinesFrom(text, i + 1, <<>>, Append(acc, line))
    ELSE LinesFrom(text, i + 1, Append(line, text[i]), acc)

Lines(text) == LinesFrom(text, 1, <<>>, <<>>)

----------------------------------------------------------------------------
(* The commands: link, clean and sync, run one after another on a dotfiles *)
(* directory, the link batch by parallel workers.                          *)

AbsDir == <<"/","h","/","d">>
RelDir == <<"h","/","d">>
TildeDir == <<"~","/","d">>
BadDir == <<"z","z">>
RepoArg == <<"o","/","r">>

\* the directory arguments the commands are given.  The dotfiles directory is
\* /h/d; the working directory is /, so h/d names it too, and so does ~/d.
DirArgs == {AbsDir, RelDir, TildeDir, BadDir, RepoArg}

CmdPaths ==
    {PathBuf(a) : a \in DirArgs} \cup {get_full_path(PathBuf(a)) : a \in DirArgs}
    \cup {PathBuf(default_location)}

\* a command that has returned: what it returned, the phase it reached
\* ("origin", "manifest", "expand": the fatal error that ended it; "batch":
\* it ran its batch), the descriptors, the Result each descriptor's own run
\* ended with (outs), the Vec of Results the batch returned (results) and
\* what show_errors made of it (shown); sync: it ran as a stage of sync
Done(name, dir, ret, phase, msg, progs, outs, res, before, after) ==
    [cmd |-> name, dir |-> dir, ret |-> ret, phase |-> phase, msg |-> msg,
     programs |-> progs,
     outs |-> outs, results |-> res, before |-> before, after |-> after,
     sync |-> FALSE,
     shown |-> IF phase # "batch" THEN NotShown
               ELSE IF name = "link" THEN link_show_errors(res)
               ELSE show_errors(res)]

\* a stage of the sync command that has returned
Stage(d) == [d EXCEPT !.sync = TRUE]

\* no command is running
NoCmd == [cmd |-> "none", dir |-> <<>>,
          before |-> [parent |-> "dir", tgt |-> [t \in Targets |-> Nothing],
                      org |-> [e \in Entries |-> "none"]]]

workVars == <<programs, wpc, wout, order, results>>
cloneVars == <<mat, mout>>
expandVars == <<expanded>>
pathVars == <<resolved>>
cmdVars == <<dotfiles, pc, cur, programs, wpc, wout, order, results, log>>

\* link::execute, up to the start of configure
StartLink(dir, git) ==
    /\ pc = "idle"
    /\ Len(log) < MaxCmds
    /\ LET i == link_init(dir, git) IN
        /\ disk' = i.disk
        /\ IF i.r.ok
           THEN /\ pc' = "linking"
                /\ cur' = [cmd |-> "link", dir |-> dir, before |-> fs]
                /\ programs' = i.r.programs
                /\ wpc' = [k \in DOMAIN i.r.programs |-> "check"]
                /\ wout' = [k \in DOMAIN i.r.programs |-> Pending]
                /\ order' = <<>>
                /\ UNCHANGED <<results, log>>
           ELSE /\ log' = Append(log, Done("link", dir, "Err", i.r.phase, i.r.msg,
                                           <<>>, <<>>, <<>>, fs, fs))
                /\ UNCHANGED <<pc, cur, workVars>>
    /\ UNCHANGED <<fs, dotfiles, raw, parsed, cpc, opts, calls,
                   cloneVars, expandVars, pathVars>>

Finish(k, out) ==
    /\ wpc' = [wpc EXCEPT ![k] = "done"]
    /\ wout' = [wout EXCEPT ![k] = out]
    /\ order' = Append(order, k)

Working(k) ==
    /\ pc = "linking"
    /\ k \in DOMAIN programs
    /\ keeps_going(wout)

\* configure: if self.target_path.exists() { .. return Ok(()) }
WExists(k) ==
    /\ Working(k)
    /\ wpc[k] = "check"
    /\ IF exists(fs, programs[k].target_path)
       THEN Finish(k, Res(TRUE, "already configured"))
       ELSE /\ wpc' = [wpc EXCEPT ![k] = "parent"]
            /\ UNCHANGED <<wout, order>>
    /\ UNCHANGED <<fs, disk, dotfiles, pc, cur, programs, results, log,
                   raw, parsed, cpc, opts, calls, cloneVars, expandVars, pathVars>>

\* ensure_path_ok: if !parent.exists()
WParent(k) ==
    /\ Working(k)
    /\ wpc[k] = "parent"
    /\ wpc' = [wpc EXCEPT ![k] = IF parent_exists(fs) THEN "symlink" ELSE "mkdir"]
    /\ UNCHANGED <<fs, disk, dotfiles, pc, cur, programs, wout, order, results,
                   log, raw, parsed, cpc, opts, calls, cloneVars, expandVars, pathVars>>

\* ensure_path_ok: fs::create_dir_all(parent)?
WMkdir(k) ==
    /\ Working(k)
    /\ wpc[k] = "mkdir"
    /\ LET r == create_dir_all(fs) IN
        /\ fs' = r.fs
        /\ IF r.ok
           THEN /\ wpc' = [wpc EXCEPT ![k] = "symlink"]
                /\ UNCHANGED <<wout, order>>
           ELSE Finish(k, Res(FALSE, "create parent failed"))
    /\ UNCHANGED <<disk, dotfiles, pc, cur, programs, results, log,
                   raw, parsed, cpc, opts, calls, cloneVars, expandVars, pathVars>>

\* configure: symlink(&self.path, &self.target_path)?; .. Ok(())
WSymlink(k) ==
    /\ Working(k)
    /\ wpc[k] = "symlink"
    /\ LET r == symlink(fs, programs[k].path, programs[k].target_path) IN
        /\ fs' = r.fs
        /\ Finish(k, IF r.ok THEN Res(TRUE, "configured")
                     ELSE Res(FALSE, "symlink failed"))
    /\ UNCHANGED <<disk, dotfiles, pc, cur, programs, results, log,
                   raw, parsed, cpc, opts, calls, cloneVars, expandVars, pathVars>>

\* link::execute, from the return of configure: show_errors(result); Ok(())
LinkReturn ==
    /\ pc = "linking"
    /\ (\A k \in DOMAIN programs : wpc[k] = "done") \/ ~keeps_going(wout)
    /\ LET res == collect(wout, order)
           d == Done("link", cur.dir, link_execute_returns(res),
                     "batch", <<>>, programs, wout, res, cur.before, fs)
       IN log' = Append(log, IF cur.cmd = "sync" THEN Stage(d) ELSE d)
    /\ pc' = "idle"
    /\ cur' = NoCmd
    /\ programs' = <<>>
    /\ wpc' = <<>>
    /\ wout' = <<>>
    /\ order' = <<>>
    /\ results' = <<>>
    /\ UNCHANGED <<fs, disk, dotfiles, raw, parsed, cpc, opts, calls,
                   cloneVars, expandVars, pathVars>>

\* clean::execute, up to the batch
StartClean(dir) ==
    /\ pc = "idle"
    /\ Len(log) < MaxCmds
    /\ LET r == clean_init(dir) IN
        IF r.ok
        THEN /\ pc' = "cleaning"
             /\ cur' = [cmd |-> "clean", dir |-> dir, before |-> fs]
             /\ programs' = r.programs
             /\ results' = <<>>
             /\ UNCHANGED <<wpc, wout, order, log>>
        ELSE /\ log' = Append(log, Done("clean", dir, "Err", r.phase, r.msg,
                                        <<>>, <<>>, <<>>, fs, fs))
             /\ UNCHANGED <<pc, cur, workVars>>
    /\ UNCHANGED <<fs, disk, dotfiles, raw, parsed, cpc, opts, calls,
                   cloneVars, expandVars, pathVars>>

\* clean::execute: programs.iter().map(Undo::undo), the next item
CleanUndo ==
    /\ pc = "cleaning"
    /\ Len(results) < Len(programs)
    /\ keeps_going(results)
    /\ LET out == undo(fs, programs[Len(results) + 1]) IN
        /\ fs' = out.fs
        /\ results' = Append(results, Res(out.ok, out.msg))
    /\ UNCHANGED <<disk, dotfiles, pc, cur, programs, wpc, wout, order, log,
                   raw, parsed, cpc, opts, calls, cloneVars, expandVars, pathVars>>

\* clean::execute, from the end of the iteration: show_errors(errors); Ok(())
CleanReturn ==
    /\ pc = "cleaning"
    /\ cur.cmd = "clean"
    /\ Len(results) = Len(programs) \/ ~keeps_going(results)
    /\ log' = Append(log, Done("clean", cur.dir, clean_execute_returns(results),
                               "batch", <<>>, programs, results, results, cur.before, fs))
    /\ pc' = "idle"
    /\ cur' = NoCmd
    /\ programs' = <<>>
    /\ wpc' = <<>>
    /\ wout' = <<>>
    /\ order' = <<>>
    /\ results' = <<>>
    /\ UNCHANGED <<fs, disk, dotfiles, raw, parsed, cpc, opts, calls,
                   cloneVars, expandVars, pathVars>>

\* a sync that goes on to the next stage whatever the stage returned
proceeds_anyway(ret) == TRUE

\* the ? after a stage of sync::execute: the next stage runs only when
\* this one returned Ok
proceeds(ret) == ret = "Ok"

\* sync::git_pull: Command::new("git").arg("pull").current_dir(dir).status()
\* with the context "git pull failed".  status() is an error when the process
\* cannot be started, which is also the case when dir is no directory; the
\* exit status of git is not looked at.
git_pull(dir, git) ==
    IF git = "nostart" \/ DiskKind(dir) # "dir" THEN "Err" ELSE "Ok"

\* sync::execute: Syncer::with_dir(directory), syncer.pull()?
StartSync(dir, git) ==
    /\ pc = "idle"
    /\ Len(log) < MaxCmds
    /\ LET ret == git_pull(get_full_path(PathBuf(dir)), git) IN
        /\ log' = Append(log, Stage(Done("pull", dir, ret, "pull",
                                IF ret = "Err" THEN <<"git pull failed">> ELSE <<>>,
                                <<>>, <<>>, <<>>, fs, fs)))
        /\ IF proceeds(ret)
           THEN /\ pc' = "pulled"
                /\ cur' = [cmd |-> "sync", dir |-> dir, before |-> fs]
           ELSE UNCHANGED <<pc, cur>>
    /\ UNCHANGED <<fs, disk, dotfiles, workVars, raw, parsed, cpc, opts, calls,
                   cloneVars, expandVars, pathVars>>

\* sync::execute: crate::commands::clean::execute(directory)?, up to the batch
SyncClean ==
    /\ pc = "pulled"
    /\ LET r == clean_init(cur.dir) IN
        IF r.ok
        THEN /\ pc' = "cleaning"
             /\ cur' = [cur EXCEPT !.before = fs]
             /\ programs' = r.programs
             /\ results' = <<>>
             /\ UNCHANGED <<wpc, wout, order, log>>
        ELSE /\ log' = Append(log, Stage(Done("clean", cur.dir, "Err", r.phase, r.msg,
                                              <<>>, <<>>, <<>>, fs, fs)))
             /\ pc' = "idle"
             /\ cur' = NoCmd
             /\ UNCHANGED workVars
    /\ UNCHANGED <<fs, disk, dotfiles, raw, parsed, cpc, opts, calls,
                   cloneVars, expandVars, pathVars>>

\* sync::execute: clean::execute returns, and the ? after it
SyncCleanReturn ==
    /\ pc = "cleaning"
    /\ cur.cmd = "sync"
    /\ Len(results) = Len(programs) \/ ~keeps_going(results)
    /\ LET ret == clean_execute_returns(results) IN
        /\ log' = Append(log, Stage(Done("clean", cur.dir, ret, "batch", <<>>,
                                         programs, results, results, cur.before, fs)))
        /\ IF proceeds(ret)
           THEN /\ pc' = "cleaned"
                /\ UNCHANGED cur
           ELSE /\ pc' = "idle"
                /\ cur' = NoCmd
    /\ programs' = <<>>
    /\ wpc' = <<>>
    /\ wout' = <<>>
    /\ order' = <<>>
    /\ results' = <<>>
    /\ UNCHANGED <<fs, disk, dotfiles, raw, parsed, cpc, opts, calls,
                   cloneVars, expandVars, pathVars>>

\* sync::execute: crate::commands::link::execute(directory), up to the
\* start of configure
SyncLink(git) ==
    /\ pc = "cleaned"
    /\ LET i == link_init(cur.dir, git) IN
        /\ disk' = i.disk
        /\ IF i.r.ok
           THEN /\ pc' = "linking"
                /\ cur' = [cur EXCEPT !.before = fs]
                /\ programs' = i.r.programs
                /\ wpc' = [k \in DOMAIN i.r.programs |-> "check"]
                /\ wout' = [k \in DOMAIN i.r.programs |-> Pending]
                /\ order' = <<>>
                /\ UNCHANGED <<results, log>>
           ELSE /\ log' = Append(log, Stage(Done("link", cur.dir, "Err", i.r.phase,
                                                 i.r.msg, <<>>, <<>>, <<>>, fs, fs)))
                /\ pc' = "idle"
                /\ cur' = NoCmd
                /\ UNCHANGED workVars
    /\ UNCHANGED <<fs, dotfiles, raw, parsed, cpc, opts, calls,
                   cloneVars, expandVars, pathVars>>

\* the dotfiles directories the commands are run on
Magefile(valid, table) == [valid |-> valid, table |-> table]

DotfilesDirs == {
    [listing |-> <<"e1", "magefile.toml">>,
     magefiles |-> [n \in {"magefile.toml"} |->
                      Magefile(TRUE, <<Entry("e1", "t1")>>)]],
    [listing |-> <<"magefile.toml", "e2", "e1">>,
     magefiles |-> [n \in {"magefile.toml"} |->
                      Magefile(TRUE, <<Entry("e1", "t1"), Entry("e2", "t2")>>)]],
    [listing |-> <<"e1", "e2", "magefile.toml">>,
     magefiles |-> [n \in {"magefile.toml"} |->
                      Magefile(TRUE, <<Entry("e1", "t1"), Entry("e2", "t1")>>)]],
    [listing |-> <<"e1", "magefile.toml">>,
     magefiles |-> [n \in {"magefile.toml"} |->
                      Magefile(TRUE, <<Entry("e1", "missing")>>)]],
    [listing |-> <<"e1", "magefile.toml">>,
     magefiles |-> [n \in {"magefile.toml"} |-> Magefile(FALSE, <<>>)]],
    [listing |-> <<"e1", "e2", "magefile.toml">>,
     magefiles |-> [n \in {"magefile.toml"} |->
                      Magefile(TRUE, <<Entry("e1", "t1"), Entry("e2", "missing")>>)]],
    [listing |-> <<"e1">>,
     magefiles |-> [n \in {} |-> Magefile(FALSE, <<>>)]] }

Listed(d) == {d.listing[i] : i \in DOMAIN d.listing}

\* the entries of the listing are on disk: e1 is a directory, e2 a file
OrgOk(f, d) ==
    \A e \in Entries :
        f.org[e] = IF e \notin Listed(d) THEN "none"
                   ELSE IF e = "e1" THEN "dir" ELSE "file"

\* what the commands find at the targets when they start
CmdNodes(t) ==
    IF t = "t1" THEN TargetNodes ELSE {Nothing, Link(Ref("gone", TRUE))}

----------------------------------------------------------------------------
(* The specifications.                                                     *)

ParserIdle ==
    /\ raw = <<>>
    /\ parsed = NotParsed
    /\ cpc = "off"

CallsIdle ==
    /\ opts = ProgramOptions("e1", Ref("e1", TRUE), "t1")
    /\ calls = <<>>

CommandsIdle ==
    /\ dotfiles = [listing |-> <<>>, magefiles |-> <<>>]
    /\ pc = "off"
    /\ cur = NoCmd
    /\ programs = <<>>
    /\ wpc = <<>>
    /\ wout = <<>>
    /\ order = <<>>
    /\ results = <<>>
    /\ log = <<>>

CloneIdle ==
    /\ mat = [op |-> "off"]
    /\ mout = [ret |-> "off"]

NotExpanded == [ok |-> FALSE, phase |-> "none", msg |-> <<>>, programs |-> <<>>]

ExpandIdle == expanded = NotExpanded

NotResolved == [done |-> FALSE, path |-> NoPath]

ResolveIdle == resolved = NotResolved

parserVars == <<raw, parsed, cpc>>
callVars == <<opts, calls>>
vars == <<raw, disk, parsed, cpc, fs, opts, calls, dotfiles, pc, cur, programs,
          wpc, wout, order, results, log, mat, mout, expanded, resolved>>

Init ==
    /\ ParserIdle
    /\ ExpandIdle
    /\ ResolveIdle
    /\ CallsIdle
    /\ CloneIdle
    /\ disk = [p \in CmdPaths |->
                 IF p \in {PathBuf(AbsDir), PathBuf(RelDir)} THEN "dir" ELSE "none"]
    /\ dotfiles \in DotfilesDirs
    /\ fs \in {f \in FsStates :
                 /\ FsOk(f)
                 /\ OrgOk(f, dotfiles)
                 /\ \A t \in Targets : f.tgt[t] \in CmdNodes(t)}
    /\ pc = "idle"
    /\ cur = NoCmd
    /\ programs = <<>>
    /\ wpc = <<>>
    /\ wout = <<>>
    /\ order = <<>>
    /\ results = <<>>
    /\ log = <<>>

Next ==
    \/ \E dir \in DirArgs, git \in GitOutcomes : StartLink(dir, git)
    \/ \E k \in DOMAIN programs : WExists(k)
    \/ \E k \in DOMAIN programs : WParent(k)
    \/ \E k \in DOMAIN programs : WMkdir(k)
    \/ \E k \in DOMAIN programs : WSymlink(k)
    \/ LinkReturn
    \/ \E dir \in DirArgs : StartClean(dir)
    \/ CleanUndo
    \/ CleanReturn

Spec == Init /\ [][Next]_vars

\* the scheduler runs every worker that can take a step, and a command that
\* can return does
FairSpec == Spec /\ WF_vars(Next)

(* The link, clean and sync commands, run one after another.               *)

NextSync ==
    \/ Next
    \/ \E dir \in DirArgs, git \in GitOutcomes : StartSync(dir, git)
    \/ SyncClean
    \/ SyncCleanReturn
    \/ \E git \in GitOutcomes : SyncLink(git)

\* the commands start on a disk where the parent of the targets is there or
\* can be made, and where the first target holds anything a target can hold
InitSync ==
    /\ Init
    /\ fs.parent \in {"dir", "missing"}
    /\ fs.tgt["t2"] = Nothing

SpecSync == InitSync /\ [][NextSync]_vars

(* Direct calls: configure and undo called on one descriptor, one call     *)
(* after another, nothing else changing the disk in between.               *)

Call(op, before, out) ==
    [op |-> op, before |-> before, ok |-> out.ok, msg |-> out.msg,
     muts |-> out.muts, after |-> out.fs]

InitCalls ==
    /\ ParserIdle
    /\ ExpandIdle
    /\ ResolveIdle
    /\ CommandsIdle
    /\ CloneIdle
    /\ disk = [p \in {NoPath} |-> "none"]
    /\ fs \in {f \in FsStates : FsOk(f)}
    /\ opts \in Descriptors
    /\ calls = <<>>

CallConfigure ==
    /\ Len(calls) < MaxCalls
    /\ LET out == configure_one(fs, opts) IN
        /\ fs' = out.fs
        /\ calls' = Append(calls, Call("configure", fs, out))
    /\ UNCHANGED <<opts, disk, parserVars, cmdVars, cloneVars, expandVars, pathVars>>

CallUndo ==
    /\ Len(calls) < MaxCalls
    /\ LET out == undo(fs, opts) IN
        /\ fs' = out.fs
        /\ calls' = Append(calls, Call("undo", fs, out))
    /\ UNCHANGED <<opts, disk, parserVars, cmdVars, cloneVars, expandVars, pathVars>>

NextCalls == CallConfigure \/ CallUndo

SpecCalls == InitCalls /\ [][NextCalls]_vars

(* The setup command's configure called once on one descriptor, for every  *)
(* state of the filesystem and every outcome of the install check.         *)

InitSetup ==
    /\ ParserIdle
    /\ ExpandIdle
    /\ ResolveIdle
    /\ CommandsIdle
    /\ CloneIdle
    /\ disk = [p \in {NoPath} |-> "none"]
    /\ fs \in {f \in FsStates : FsOk(f)}
    /\ opts \in {SetupOptions(o, c) : o \in Descriptors, c \in {"None", "Some"}}
    /\ calls = <<>>

CallSetupConfigure(sh) ==
    /\ calls = <<>>
    /\ LET out == setup_configure(fs, opts, sh) IN
        /\ fs' = out.fs
        /\ calls' = <<[op |-> "setup", before |-> fs, ok |-> out.ok, msg |-> out.msg,
                       muts |-> out.muts, after |-> out.fs, details |-> out.details,
                       ran |-> out.ran, sh |-> sh]>>
    /\ UNCHANGED <<opts, disk, parserVars, cmdVars, cloneVars, expandVars, pathVars>>

NextSetup == \E sh \in ShellOutcomes : CallSetupConfigure(sh)

SpecSetup == InitSetup /\ [][NextSetup]_vars

(* Materialization on its own: one call of clone_repo, of the conversion   *)
(* of an origin into a ReadDir, or of the clone command, for every state   *)
(* of the disk at the paths involved and every outcome of git.             *)

SshArg == <<"g","i","t","@","g","i","t","h","u","b",".","c","o","m",":","o","/","r",".","g","i","t">>

\* the repository arguments: a shorthand, a full URL, a string that is
\* neither, and the dotfiles directory
CloneRepos == {RepoArg, SshArg, BadDir, AbsDir}

\* the directory arguments
CloneDirs == {<<"/","h","/","c">>, <<"~","/","c">>, <<"c">>}

ClonePaths(repository, directory) ==
    {PathBuf(repository), PathBuf(directory), get_full_path(PathBuf(directory)),
     PathBuf(default_location)}

Materialized(op, o, c, before, path) ==
    [op |-> op, origin |-> o, ret |-> IF c.ok THEN "Ok" ELSE "Err", msg |-> c.msg,
     invoked |-> c.invoked, path |-> path, before |-> before]

NotMaterialized ==
    [op |-> "none", origin |-> NotParsed, ret |-> "none", msg |-> "",
     invoked |-> FALSE, path |-> <<>>, before |-> <<>>]

InitClone ==
    /\ ParserIdle
    /\ ExpandIdle
    /\ ResolveIdle
    /\ CallsIdle
    /\ CommandsIdle
    /\ fs = [parent |-> "dir", tgt |-> [t \in Targets |-> Nothing],
             org |-> [e \in Entries |-> "file"]]
    /\ \E repository \in CloneRepos, directory \in CloneDirs, git \in GitOutcomes :
         /\ mat = [repository |-> repository, directory |-> directory, git |-> git]
         /\ disk \in {d \in [ClonePaths(repository, directory) -> Kinds] :
                        /\ d[PathBuf(repository)] = IF repository = AbsDir THEN "dir" ELSE "none"
                        /\ d[PathBuf(default_location)] # "file"}
    /\ mout = NotMaterialized

\* clone_repo(url, path)
CallCloneRepo ==
    /\ mout.ret = "none"
    /\ LET c == clone_repo(mat.repository, mat.directory, mat.git) IN
        /\ disk' = c.disk
        /\ mout' = Materialized("clone_repo", NotParsed, c, disk, mat.directory)
    /\ UNCHANGED <<mat, fs, parserVars, callVars, cmdVars, expandVars, pathVars>>

\* the origins handed to the conversion: a directory, a repository with
\* the destination given, and what from_str makes of the argument
CloneOrigins ==
    ({Directory(PathBuf(mat.directory)), Repository(mat.repository, mat.directory)}
     \cup {from_str(mat.repository)}) \ {OriginErr}

\* ReadDir::try_from(origin)
CallTryInto(o) ==
    /\ mout.ret = "none"
    /\ LET c == try_into(o, mat.git) IN
        /\ disk' = c.disk
        /\ mout' = Materialized("try_into", o, c, disk,
                                IF o.tag = "Directory" THEN to_str(o.path) ELSE o.dest)
    /\ UNCHANGED <<mat, fs, parserVars, callVars, cmdVars, expandVars, pathVars>>

\* mage clone <repository> <directory>
CloneExecute ==
    /\ mout.ret = "none"
    /\ LET c == clone_execute(mat.repository, mat.directory, mat.git) IN
        /\ disk' = c.disk
        /\ mout' = Materialized("clone", from_str(mat.repository), c, disk,
                                to_str(get_full_path(PathBuf(mat.directory))))
    /\ UNCHANGED <<mat, fs, parserVars, callVars, cmdVars, expandVars, pathVars>>

NextClone ==
    \/ CallCloneRepo
    \/ \E o \in CloneOrigins : CallTryInto(o)
    \/ CloneExecute

SpecClone == InitClone /\ [][NextClone]_vars

(* Expansion on its own: read_dotfiles run once on a dotfiles directory,   *)
(* for every listing order of its entries and every content of its         *)
(* magefiles.                                                              *)

ExpandNames == {"magefile.toml", "magefile.bak", "e1", "e2"}

\* the listings: every subset of the names, in every order
Listings ==
    UNION {{l \in [1..n -> ExpandNames] : \A i, j \in 1..n : i # j => l[i] # l[j]} :
           n \in 0..Cardinality(ExpandNames)}

\* what a magefile can hold
MagefileContents == {
    Magefile(TRUE, <<Entry("e1", "t1"), Entry("e2", "t2")>>),
    Magefile(TRUE, <<Entry("e2", "t2"), Entry("e1", "t1")>>),
    Magefile(TRUE, <<Entry("e1", "t1"), Entry("e2", "missing")>>),
    Magefile(TRUE, <<Entry("e1", "t2")>>),
    Magefile(TRUE, <<Entry("e1", "t1"), Entry("e3", "t2"),
                     Entry("magefile.toml", "t2")>>),
    Magefile(FALSE, <<>>) }

ExpandDirs ==
    UNION {{[listing |-> l, magefiles |-> m] :
              m \in [{n \in ExpandNames : is_magefile(n) /\ \E i \in DOMAIN l : l[i] = n}
                       -> MagefileContents]} :
           l \in Listings}

InitExpand ==
    /\ ResolveIdle
    /\ ParserIdle
    /\ CallsIdle
    /\ CloneIdle
    /\ disk = [p \in {PathBuf(AbsDir)} |-> "dir"]
    /\ fs = [parent |-> "dir", tgt |-> [t \in Targets |-> Nothing],
             org |-> [e \in Entries |-> "file"]]
    /\ dotfiles \in ExpandDirs
    /\ pc = "off"
    /\ cur = NoCmd
    /\ programs = <<>>
    /\ wpc = <<>>
    /\ wout = <<>>
    /\ order = <<>>
    /\ results = <<>>
    /\ log = <<>>
    /\ expanded = NotExpanded

\* read_dotfiles(fs::read_dir("/h/d"))
CallReadDotfiles ==
    /\ expanded = NotExpanded
    /\ expanded' = read_dotfiles(dotfiles, TRUE)
    /\ UNCHANGED <<disk, fs, parserVars, callVars, cmdVars, cloneVars, pathVars>>

NextExpand == CallReadDotfiles

SpecExpand == InitExpand /\ [][NextExpand]_vars

(* The parser on its own: one origin string, parsed once, for every state  *)
(* of the disk at the path the string names and at its home-expanded form. *)

InitParse ==
    /\ CallsIdle
    /\ ExpandIdle
    /\ ResolveIdle
    /\ CommandsIdle
    /\ CloneIdle
    /\ fs = [parent |-> "dir", tgt |-> [t \in Targets |-> Nothing],
             org |-> [e \in Entries |-> "file"]]
    /\ raw \in OriginInputs
    /\ \E k1, k2 \in Kinds :
         disk = [p \in {PathBuf(raw), get_full_path(PathBuf(raw))} |->
                    IF p = PathBuf(raw) THEN k1 ELSE k2]
    /\ parsed = NotParsed
    /\ cpc = "input"

\* directory.parse::<DotfilesOrigin>()
Parse ==
    /\ cpc = "input"
    /\ parsed' = from_str(raw)
    /\ cpc' = "parsed"
    /\ UNCHANGED <<raw, disk, fs, callVars, cmdVars, cloneVars, expandVars, pathVars>>

NextParse == Parse

SpecParse == InitParse /\ [][NextParse]_vars

(* get_full_path called once on a path string.                             *)

\* how many components the paths have at most
MaxSegs == 3

PathNames == {Tilde, <<"a">>, <<"b">>}

RECURSIVE SegLists(_)
SegLists(n) ==
    IF n = 0 THEN {<<>>}
    ELSE SegLists(n - 1)
         \cup {Append(l, c) : l \in {m \in SegLists(n - 1) : Len(m) = n - 1},
                               c \in PathNames}

\* the path strings: every list of at most MaxSegs names joined with "/",
\* relative and absolute
PathInputs ==
    {Join(l) : l \in SegLists(MaxSegs)} \cup {<<"/">> \o Join(l) : l \in SegLists(MaxSegs)}

InitPath ==
    /\ CallsIdle
    /\ ExpandIdle
    /\ CommandsIdle
    /\ CloneIdle
    /\ fs = [parent |-> "dir", tgt |-> [t \in Targets |-> Nothing],
             org |-> [e \in Entries |-> "file"]]
    /\ disk = [p \in {NoPath} |-> "none"]
    /\ raw \in PathInputs
    /\ parsed = NotParsed
    /\ cpc = "off"
    /\ resolved = NotResolved

\* get_full_path(path)
Resolve ==
    /\ ~resolved.done
    /\ resolved' = [done |-> TRUE, path |-> get_full_path(PathBuf(raw))]
    /\ UNCHANGED <<raw, parsed, cpc, disk, fs, callVars, cmdVars, cloneVars, expandVars>>

NextPath == Resolve

SpecPath == InitPath /\ [][NextPath]_vars

----------------------------------------------------------------------------
(* Claims about single calls of the engines (SpecCalls).                   *)

TargetOf(c) == c.before.tgt[opts.target_path]

\* C1: undo never removes a non-symlink target.  Whenever undo is called on a
\* descriptor whose target_path holds a regular file or a real directory, it
\* returns Ok on its skip path and the file or directory is still there,
\* unchanged, afterwards.
C1_UndoSkipsRealFiles ==
    \A i \in DOMAIN calls :
        (/\ calls[i].op = "undo"
         /\ lexists(calls[i].before, opts.target_path)
         /\ TargetOf(calls[i]).kind \in {"file", "dir"})
        => /\ calls[i].ok
           /\ calls[i].msg = "skipping"
           /\ calls[i].muts = 0
           /\ calls[i].after = calls[i].before

C1_Witness ==
    \E i \in DOMAIN calls :
        /\ calls[i].op = "undo"
        /\ lexists(calls[i].before, opts.target_path)
        /\ TargetOf(calls[i]).kind = "file"
        /\ calls[i].msg = "skipping"
        /\ lexists(fs, opts.target_path)

\* nothing sits at the target path and its parent is there or can be made
TargetFree(f, t) == ~lexists(f, t) /\ f.parent \in {"dir", "missing"}

\* C2: configure is idempotent.  Called twice in a row on a descriptor whose
\* target_path did not exist before, it reports "configured" (Linked) the
\* first time and "already configured" (AlreadyLinked) the second, and the
\* two calls together make exactly one mutation of the filesystem.
C2_LinkedThenAlreadyLinked ==
    (/\ Len(calls) >= 2
     /\ calls[1].op = "configure"
     /\ calls[2].op = "configure"
     /\ TargetFree(calls[1].before, opts.target_path))
    => /\ calls[1].ok /\ calls[1].msg = "configured"
       /\ calls[2].ok /\ calls[2].msg = "already configured"
       /\ calls[1].muts + calls[2].muts = 1

\* C3: whatever already occupies target_path (a real file, a real directory,
\* a symlink to an existing referent, a symlink whose referent is missing),
\* configure returns Ok with "already configured" (AlreadyLinked) and changes
\* nothing; it never fails because of what is at the target.
C3_OccupiedTargetIsAlreadyLinked ==
    \A i \in DOMAIN calls :
        (calls[i].op = "configure" /\ lexists(calls[i].before, opts.target_path))
        => /\ calls[i].ok
           /\ calls[i].msg = "already configured"
           /\ calls[i].after = calls[i].before

----------------------------------------------------------------------------
(* Claims about the parser (SpecParse).                                    *)

\* C9: from_str applies its rules in strict priority order.  An input that
\* names an existing directory is a Directory even if the string is also a
\* full repository URL or an owner/repo shorthand; otherwise a full URL is a
\* Repository of that URL; otherwise a shorthand that names no existing path
\* is a Repository of the expanded URL; anything else is an error.
C9_PriorityOrder ==
    cpc = "parsed" =>
        LET dir == DiskKind(PathBuf(raw)) = "dir"
            url == is_valid_repo_url(raw)
            short == FindsWhole(repo_re, raw) /\ DiskKind(PathBuf(raw)) = "none"
        IN /\ dir => parsed = Directory(PathBuf(raw))
           /\ (~dir /\ url) => parsed = Repository(raw, default_location)
           /\ (~dir /\ ~url /\ short) =>
                 parsed = Repository(full_repo_url(raw), default_location)
           /\ (~dir /\ ~url /\ ~short) => parsed = OriginErr

C9_Witness ==
    /\ cpc = "parsed"
    /\ DiskKind(PathBuf(raw)) = "dir"
    /\ is_valid_repo_url(raw)
    /\ parsed.tag = "Directory"

\* C10: from_str tests for a directory after path resolution.  For an input
\* that begins with `~` and whose home-expanded form is an existing
\* directory, it returns Directory carrying the expanded path (and so no
\* Repository, for which a clone would be started).
C10_TildeIsResolved ==
    (/\ cpc = "parsed"
     /\ StartsWithTilde(PathBuf(raw))
     /\ DiskKind(get_full_path(PathBuf(raw))) = "dir")
    => parsed = Directory(get_full_path(PathBuf(raw)))

\* the SSH form of a shorthand: git@github.com:<owner>/<repo>.git
SshUrl(s) ==
    <<"g","i","t","@","g","i","t","h","u","b",".","c","o","m",":">>
    \o s \o <<".","g","i","t">>

\* C11: for every string of the form <owner>/<repo> that names no local
\* path, from_str returns a Repository whose clone URL is exactly
\* git@github.com:<owner>/<repo>.git, with a colon between host and owner.
C11_ShorthandGivesSshUrl ==
    (/\ cpc = "parsed"
     /\ ConsumesAll(repo_re, raw)
     /\ DiskKind(PathBuf(raw)) = "none")
    => /\ parsed.tag = "Repository"
       /\ parsed.url = SshUrl(raw)

\* C12: repository patterns are matched exactly.  from_str returns a
\* Repository only for an input that one of the three patterns consumes from
\* its first character to its last; an input that is no directory and that
\* no pattern consumes whole is an error, also when it contains a substring
\* a pattern matches (a full URL followed by /x).
C12_PatternsConsumeAll ==
    cpc = "parsed" =>
        LET whole == \/ ConsumesAll(SshRe, raw)
                     \/ ConsumesAll(HttpsRe, raw)
                     \/ ConsumesAll(repo_re, raw)
        IN /\ parsed.tag = "Repository" => whole
           /\ (~whole /\ DiskKind(PathBuf(raw)) # "dir") => parsed = OriginErr

C12_Witness ==
    /\ cpc = "parsed"
    /\ ContainsMatch(HttpsRe, raw)
    /\ ~ConsumesAll(HttpsRe, raw)
    /\ DiskKind(PathBuf(raw)) = "none"
    /\ parsed = OriginErr

----------------------------------------------------------------------------
(* Claims about the commands (Spec).                                       *)

Returned == DOMAIN log

\* the magefiles of the directory, in listing order
MagefilesOf(d) == SelectSeq(d.listing, is_magefile)

Batch(k) == log[k].phase = "batch"

\* the targets that exactly one descriptor of a batch names
OwnTarget(progs, i) ==
    \A j \in DOMAIN progs : j # i => progs[j].target_path # progs[i].target_path

\* C4: link followed by clean is a round trip on the target.  When link has
\* run on a directory whose magefile maps an existing entry to a target_path
\* at which nothing was, a symlink sits at target_path that points at the
\* entry in the dotfiles directory; and when clean has then run on the same
\* directory, nothing is left at target_path.
C4_LinkThenClean ==
    (/\ Len(log) = 2
     /\ log[1].cmd = "link" /\ Batch(1)
     /\ log[2].cmd = "clean" /\ Batch(2)
     /\ log[2].dir = log[1].dir)
    => \A i \in DOMAIN log[1].programs :
          LET o == log[1].programs[i]
              linked == log[1].after.tgt[o.target_path]
          IN (OwnTarget(log[1].programs, i) /\ TargetFree(log[1].before, o.target_path))
             => /\ linked.kind = "link"
                /\ linked.ref.to = o.name
                /\ RefKind(log[1].after, linked.ref) # "none"
                /\ ~lexists(log[2].after, o.target_path)

\* C5: unlinking removes only the link.  No command changes what the entries
\* of the dotfiles directory are: the file or directory a removed link
\* pointed at is as it was, whatever undo and the clean command did.
C5_OriginsUntouched ==
    /\ \A k \in Returned : log[k].after.org = log[k].before.org
    /\ pc # "idle" => fs.org = cur.before.org

C5_Witness ==
    \E k \in Returned :
        /\ log[k].cmd = "clean"
        /\ \E i \in DOMAIN log[k].programs :
            LET t == log[k].programs[i].target_path IN
            /\ log[k].results[i].msg = "cleaned"
            /\ log[k].before.tgt[t] = Link(Ref("e1", TRUE))
            /\ ~lexists(log[k].after, t)
            /\ log[k].after.org["e1"] = "dir"

\* C6: in a link or clean batch the failure of one descriptor never halts
\* its siblings.  While a batch runs it can always take a step, and a batch
\* returns only when every descriptor has been processed to its own
\* outcome, whichever of them failed.
C6_FailureHaltsNothing ==
    /\ pc \in {"linking", "cleaning"} => ENABLED Next
    /\ \A k \in Returned :
          Batch(k) =>
             /\ DOMAIN log[k].outs = DOMAIN log[k].programs
             /\ \A i \in DOMAIN log[k].outs : log[k].outs[i] # Pending

C6_Witness ==
    \E k \in Returned :
        /\ Batch(k)
        /\ \E i, j \in DOMAIN log[k].outs :
              /\ ~log[k].outs[i].ok
              /\ log[k].outs[j].msg \in {"configured", "cleaned"}

\* C7: configure returns exactly one result per input descriptor, the i-th
\* result being the outcome of the i-th descriptor, in whatever order the
\* parallel workers ran and finished.
C7_ResultsInInputOrder ==
    \A k \in Returned :
        (log[k].cmd = "link" /\ Batch(k)) =>
            /\ Len(log[k].results) = Len(log[k].programs)
            /\ \A i \in DOMAIN log[k].programs : log[k].results[i] = log[k].outs[i]

\* the second worker finished first, with another outcome than the first
C7_Witness ==
    /\ pc = "linking"
    /\ order = <<2, 1>>
    /\ wout[1] # wout[2]

\* C8: link and clean return Ok whenever origin resolution, manifest lookup
\* and manifest expansion succeeded, however many descriptors failed, and
\* Err only for a fatal error of one of these three.
C8_OkDespiteFailures ==
    \A k \in Returned :
        /\ log[k].ret = "Ok" <=> Batch(k)
        /\ log[k].ret = "Err" <=> log[k].phase \in {"origin", "manifest", "expand"}

C8_Witness ==
    \E k \in Returned :
        /\ log[k].cmd = "link"
        /\ log[k].ret = "Ok"
        /\ Failed(log[k].results) # {}

\* C18: clean run on an existing directory in which no entry has a name
\* starting with magefile fails fatally with "Magefile not found", and
\* nothing at any target path is removed or changed.
C18_CleanWithoutMagefile ==
    \A k \in Returned :
        (/\ log[k].cmd = "clean"
         /\ DiskKind(get_full_path(PathBuf(log[k].dir))) = "dir"
         /\ MagefilesOf(dotfiles) = <<>>)
        => /\ log[k].ret = "Err"
           /\ log[k].phase = "manifest"
           /\ log[k].msg = <<"Magefile not found">>
           /\ log[k].after = log[k].before

C18_Witness ==
    \E k \in Returned :
        /\ log[k].cmd = "clean"
        /\ DiskKind(get_full_path(PathBuf(log[k].dir))) = "dir"
        /\ MagefilesOf(dotfiles) = <<>>
        /\ log[k].ret = "Err"
        /\ log[k].before.tgt["t1"] = Link(Ref("e1", TRUE))
        /\ fs.tgt["t1"] = Link(Ref("e1", TRUE))

----------------------------------------------------------------------------
(* Claims about materialization (SpecClone).                               *)

Existed(path) ==
    PathBuf(path) \in DOMAIN mout.before /\ mout.before[PathBuf(path)] # "none"

\* C13: the conversion of Repository(url, destination) into a ReadDir, when
\* destination already exists as a directory, succeeds on that destination
\* as it is, without running git clone.
C13_ExistingDestinationIsUsed ==
    (/\ mout.op = "try_into"
     /\ mout.origin.tag = "Repository"
     /\ Existed(mout.origin.dest)
     /\ mout.before[PathBuf(mout.origin.dest)] = "dir")
    => /\ mout.ret = "Ok"
       /\ ~mout.invoked
       /\ disk = mout.before

\* C14: clone_repo called with a destination path that already exists
\* returns the error "Target path <path> already exists" and git clone is
\* never run; nothing on disk changes.
C14_CloneRepoRefusesExistingPath ==
    (mout.op = "clone_repo" /\ Existed(mout.path))
    => /\ mout.ret = "Err"
       /\ mout.msg = "Target path already exists"
       /\ ~mout.invoked
       /\ disk = mout.before

C14_Witness ==
    /\ mout.op = "clone_repo"
    /\ Existed(mout.path)
    /\ mat.git = "ok"
    /\ mout.ret = "Err"

\* C15: when git clone cannot be started or exits with a non-zero status,
\* clone_repo and the clone command return an error; they return Ok only
\* when git clone was run and succeeded.
C15_CloneFailureIsFatal ==
    mout.op \in {"clone_repo", "clone"}
    => /\ (mout.invoked /\ mat.git \in {"nostart", "nonzero"}) => mout.ret = "Err"
       /\ mout.ret = "Ok" => (mout.invoked /\ mat.git = "ok")

----------------------------------------------------------------------------
(* Claims about expansion (SpecExpand).                                    *)

\* where key k stands in the table
KeyIndex(table, k) == CHOOSE i \in DOMAIN table : table[i].key = k

\* C16: the descriptors come out in the order in which the magefile
\* declares their keys, whatever order the directory listing has.
C16_ManifestKeyOrder ==
    (/\ expanded.ok
     /\ Len(MagefilesOf(dotfiles)) = 1)
    => LET table == dotfiles.magefiles[MagefilesOf(dotfiles)[1]].table IN
       \A i, j \in DOMAIN expanded.programs :
           i < j => KeyIndex(table, expanded.programs[i].name)
                    < KeyIndex(table, expanded.programs[j].name)

\* C17: a magefile in which an entry lacks target_path makes the expansion
\* fail as a whole, with the error that names the entry and with no
\* descriptor, however well-formed the other entries are.
C17_MissingTargetPathAborts ==
    (/\ expanded # NotExpanded
     /\ Len(MagefilesOf(dotfiles)) = 1
     /\ dotfiles.magefiles[MagefilesOf(dotfiles)[1]].valid)
    => LET table == dotfiles.magefiles[MagefilesOf(dotfiles)[1]].table IN
       \A i \in DOMAIN table :
           table[i].target_path = "missing"
           => /\ ~expanded.ok
              /\ expanded.msg = <<"missing key: target_path", table[i].key>>
              /\ expanded.programs = <<>>

\* the directory without the magefiles that come after the first
FirstOnly(d) ==
    [d EXCEPT !.listing =
        SelectSeq(d.listing, LAMBDA n : ~is_magefile(n) \/ n = MagefilesOf(d)[1])]

\* C19: when several entries of the directory have names starting with
\* magefile, the one that comes first in the listing is the manifest: the
\* expansion is what it would be were the later ones not there.
C19_FirstMagefileWins ==
    (/\ expanded # NotExpanded
     /\ Len(MagefilesOf(dotfiles)) > 1)
    => expanded = read_dotfiles(FirstOnly(dotfiles), TRUE)

----------------------------------------------------------------------------
(* Claims about the setup command's configure (SpecSetup).                 *)

\* C20: when configure has created the symlink, it reports Installed iff
\* is_installed_cmd is absent or the command, run through a shell, exits with
\* status zero, and NotInstalled iff the command is present and exits with a
\* non-zero status or cannot be run.
C20_InstalledStatus ==
    \A i \in DOMAIN calls :
        (/\ calls[i].op = "setup"
         /\ calls[i].ok
         /\ ~lexists(calls[i].before, opts.target_path)
         /\ is_symlink(calls[i].after, opts.target_path))
        => /\ calls[i].details = "Installed"
              <=> (opts.is_installed_cmd = "None" \/ calls[i].sh = "zero")
           /\ calls[i].details = "NotInstalled"
              <=> (/\ opts.is_installed_cmd = "Some"
                   /\ calls[i].sh \in {"nonzero", "nostart"})
           /\ calls[i].ran <=> opts.is_installed_cmd = "Some"

C20_Witness ==
    \E i \in DOMAIN calls :
        /\ calls[i].op = "setup"
        /\ ~lexists(calls[i].before, opts.target_path)
        /\ is_symlink(fs, opts.target_path)
        /\ opts.is_installed_cmd = "Some"
        /\ calls[i].sh = "nostart"
        /\ calls[i].details = "NotInstalled"

----------------------------------------------------------------------------
(* Claims about the error summary (Spec).                                  *)

\* the messages of the failed results, one line each, in batch order
FailureLines(res) ==
    LET failed == SelectSeq(res, LAMBDA r : ~r.ok)
    IN [i \in DOMAIN failed |-> <<failed[i].msg>>]

\* C21: the error summary built from a batch of results contains exactly the
\* failures.  Nothing is printed iff the batch has no failure; otherwise the
\* lines of the summary are the messages of the failed results, each on its
\* own line, in batch order, and there is no line for a successful result.
C21_SummaryIsTheFailures ==
    \A k \in Returned :
        Batch(k) =>
            /\ log[k].shown.printed <=> Failed(log[k].results) # {}
            /\ log[k].shown.printed
                 => Lines(log[k].shown.text) = FailureLines(log[k].results)

----------------------------------------------------------------------------
(* Claims about path resolution (SpecPath).                                *)

\* C22: get_full_path replaces a leading `~` segment with the home directory
\* and keeps every remaining segment of the path, in order; a path that does
\* not begin with `~` is returned unchanged.
C22_TildeReplacedRestKept ==
    resolved.done =>
        LET p == PathBuf(raw) IN
        resolved.path = IF StartsWithTilde(p)
                        THEN [abs |-> HOME.abs, segs |-> HOME.segs \o Tail(p.segs)]
                        ELSE p

----------------------------------------------------------------------------
(* Claims about expansion in the link command (Spec).                      *)

\* the expansion of the dotfiles directory fails, whatever path names it
ExpansionFails == ~read_dotfiles(dotfiles, TRUE).ok

\* C23: manifest expansion is all-or-nothing with respect to linking.  In
\* the link command every descriptor is produced before the first symlink
\* or directory is created: while the workers run, the descriptors are the
\* whole expansion; and when expansion fails on any entry, the command
\* returns the error and has changed nothing at any target.
C23_ExpansionBeforeLinking ==
    /\ (pc = "linking" /\ cur.cmd = "link")
         => \E abs \in BOOLEAN : Expanded(programs) = read_dotfiles(dotfiles, abs)
    /\ ExpansionFails
         => \A k \in Returned :
               log[k].cmd = "link"
                 => /\ log[k].ret = "Err"
                    /\ log[k].programs = <<>>
                    /\ log[k].after = log[k].before

\* link has returned the error of an entry without target_path, met after an
\* entry that could have been linked: its key has a target_path and nothing
\* was at it
C23_Witness ==
    \E k \in Returned :
        /\ log[k].cmd = "link"
        /\ log[k].phase = "expand"
        /\ \E e \in Entries, t \in Targets :
              /\ \E i \in DOMAIN dotfiles.listing : dotfiles.listing[i] = e
              /\ \E n \in DOMAIN dotfiles.magefiles :
                    /\ contains_key(dotfiles.magefiles[n].table, e)
                    /\ get(dotfiles.magefiles[n].table, e).target_path = t
              /\ TargetFree(log[k].before, t)
              /\ ~lexists(log[k].after, t)

----------------------------------------------------------------------------
(* Claims about what expansion yields (SpecExpand).                        *)

\* how many descriptors of the expansion have the name n
Yielded(n) ==
    Cardinality({i \in DOMAIN expanded.programs : expanded.programs[i].name = n})

Keys(table) == {table[i].key : i \in DOMAIN table}

\* C24: expansion yields exactly one descriptor for each key of the magefile
\* that has a same-named file or directory among the entries of the dotfiles
\* directory, and none for a key without such an entry, for an entry that is
\* no key, or for the magefile itself.
C24_OneDescriptorPerListedKey ==
    (/\ expanded.ok
     /\ Len(MagefilesOf(dotfiles)) = 1)
    => LET table == dotfiles.magefiles[MagefilesOf(dotfiles)[1]].table IN
       /\ \A n \in ExpandNames \cup Keys(table) :
             Yielded(n) = IF /\ n \in Keys(table)
                             /\ n \in Listed(dotfiles)
                             /\ ~is_magefile(n)
                          THEN 1 ELSE 0
       /\ \A i \in DOMAIN expanded.programs :
             expanded.programs[i].name \in Keys(table)

\* an expansion of a directory with one magefile that has a key with an
\* entry, a key without one and its own name as a key, and an entry that is
\* no key: one descriptor
C24_Witness ==
    /\ expanded.ok
    /\ Len(MagefilesOf(dotfiles)) = 1
    /\ LET table == dotfiles.magefiles[MagefilesOf(dotfiles)[1]].table IN
        /\ \E n \in Keys(table) : n \notin Listed(dotfiles)
        /\ \E n \in Keys(table) : is_magefile(n) /\ n \in Listed(dotfiles)
        /\ \E n \in Listed(dotfiles) : ~is_magefile(n) /\ n \notin Keys(table)
        /\ \E n \in Keys(table) : n \in Listed(dotfiles) /\ Yielded(n) = 1
    /\ Len(expanded.programs) = 1

----------------------------------------------------------------------------
(* Claims about the parallel link workers (Spec).                          *)

RECURSIVE InListOrder(_, _, _, _)
\* the descriptors configured one after another in list order, from the
\* filesystem f: the filesystem left and the result of each
InListOrder(f, progs, i, outs) ==
    IF i > Len(progs) THEN [fs |-> f, outs |-> outs]
    ELSE LET o == configure_one(f, progs[i]) IN
         InListOrder(o.fs, progs, i + 1, Append(outs, Res(o.ok, o.msg)))

DistinctTargets(progs) == \A i \in DOMAIN progs : OwnTarget(progs, i)

Contend(progs, i, j) ==
    /\ i # j
    /\ progs[i].target_path = progs[j].target_path
    /\ progs[i].path # progs[j].path

\* C26: when two descriptors of one batch with different origins name the
\* same target_path, at which nothing is yet, then under every interleaving
\* exactly one worker creates the symlink, the target ends as a symlink to
\* that worker's origin, and the other worker ends with "already
\* configured" (AlreadyLinked) or a reported "symlink failed"; the symlink,
\* once made, is not replaced while the batch runs, and the batch completes.
C26_OneWinnerAtSharedTarget ==
    /\ \A k \in Returned :
          (log[k].cmd = "link" /\ Batch(k) /\ Len(log[k].programs) = 2) =>
             \A i, j \in DOMAIN log[k].programs :
                (/\ Contend(log[k].programs, i, j)
                 /\ TargetFree(log[k].before, log[k].programs[i].target_path)
                 /\ log[k].results[j].msg # "configured")
                => /\ log[k].results[i] = Res(TRUE, "configured")
                   /\ log[k].after.tgt[log[k].programs[i].target_path]
                        = Link(log[k].programs[i].path)
                   /\ log[k].results[j] \in {Res(TRUE, "already configured"),
                                              Res(FALSE, "symlink failed")}
    /\ \A k \in Returned :
          (log[k].cmd = "link" /\ Batch(k)) =>
             \A i, j \in DOMAIN log[k].programs :
                Contend(log[k].programs, i, j)
                => ~(/\ log[k].results[i].msg = "configured"
                     /\ log[k].results[j].msg = "configured")
    /\ pc = "linking" =>
          \A i \in DOMAIN programs :
             wout[i] = Res(TRUE, "configured")
             => fs.tgt[programs[i].target_path] = Link(programs[i].path)

\* the second of two descriptors that name the same free target won: the
\* symlink is its origin's, and the first reported "symlink failed"
C26_Witness ==
    \E k \in Returned :
        /\ log[k].cmd = "link" /\ Batch(k) /\ Len(log[k].programs) = 2
        /\ Contend(log[k].programs, 1, 2)
        /\ TargetFree(log[k].before, log[k].programs[1].target_path)
        /\ log[k].results = <<Res(FALSE, "symlink failed"), Res(TRUE, "configured")>>
        /\ log[k].after.tgt[log[k].programs[2].target_path]
             = Link(log[k].programs[2].path)

----------------------------------------------------------------------------
(* Claims about undo, after the dangling links (SpecCalls).                *)

\* C28: after undo has returned success for a descriptor, target_path is not
\* a symbolic link: every symlink found at a target, a dangling one (its
\* referent is gone) included, is removed.
C28_NoSymlinkAfterUndo ==
    \A i \in DOMAIN calls :
        (calls[i].op = "undo" /\ calls[i].ok)
        => ~is_symlink(calls[i].after, opts.target_path)

----------------------------------------------------------------------------
(* Claims about the sync command (SpecSync).                               *)

\* a real file or a real directory sits at target t
Occupied(f, t) == lexists(f, t) /\ f.tgt[t].kind \in {"file", "dir"}

\* C27: over any sequence of link, clean and sync commands on any magefile,
\* a regular file or real directory that occupies a target_path is still
\* there after every step: link never replaces it with a symlink and clean
\* never deletes it.
C27_RealFilesSurvive ==
    [][\A t \in Targets :
          Occupied(fs, t) => /\ Occupied(fs', t)
                             /\ fs'.tgt[t] = fs.tgt[t]]_vars

\* sync has run its clean and its link batch on a descriptor at whose
\* target a regular file or a directory was, and it is still there
C27_Witness ==
    /\ Len(log) = 3
    /\ \A k \in 1..3 : log[k].sync
    /\ log[2].cmd = "clean" /\ Batch(2)
    /\ log[3].cmd = "link" /\ Batch(3)
    /\ \E i \in DOMAIN log[3].programs :
          LET t == log[3].programs[i].target_path IN
          /\ log[2].programs[i].target_path = t
          /\ Occupied(log[1].before, t)
          /\ log[2].results[i] = Res(TRUE, "skipping")
          /\ log[3].results[i] = Res(TRUE, "already configured")
          /\ fs.tgt[t] = log[1].before.tgt[t]

\* the entry before the k-th is the stage `stage` of the same sync on the
\* same directory argument, and it returned Ok
After(k, stage) ==
    /\ k > 1
    /\ log[k - 1].sync
    /\ log[k - 1].cmd = stage
    /\ log[k - 1].ret = "Ok"
    /\ log[k - 1].dir = log[k].dir

\* the last entry of the log is the stage `stage` of the sync that is
\* running, and it returned Ok
Last(stage) ==
    /\ Len(log) > 0
    /\ log[Len(log)].sync
    /\ log[Len(log)].cmd = stage
    /\ log[Len(log)].ret = "Ok"
    /\ log[Len(log)].dir = cur.dir

\* C29: sync runs its stages in the order pull, clean, link on the same
\* directory argument, and a stage that fails prevents every later stage:
\* clean never starts before pull has returned Ok, and link never starts
\* before clean has returned Ok.
C29_SyncStagesInOrder ==
    /\ \A k \in Returned :
          log[k].sync =>
             /\ log[k].cmd = "clean" => After(k, "pull")
             /\ log[k].cmd = "link" => After(k, "clean")
             /\ (log[k].ret = "Err" /\ k < Len(log))
                  => (~log[k + 1].sync \/ log[k + 1].cmd = "pull")
    /\ cur.cmd = "sync" =>
          /\ pc \in {"pulled", "cleaning"} => Last("pull")
          /\ pc \in {"cleaned", "linking"} => Last("clean")

\* a sync whose three stages have returned Ok, and a sync before it whose
\* pull failed and that ran no other stage
C29_Witness ==
    /\ Len(log) = 4
    /\ \A k \in 1..4 : log[k].sync
    /\ log[1].cmd = "pull" /\ log[1].ret = "Err"
    /\ log[2].cmd = "pull" /\ log[2].ret = "Ok"
    /\ log[3].cmd = "clean" /\ log[3].ret = "Ok"
    /\ log[4].cmd = "link" /\ log[4].ret = "Ok"
    /\ log[3].dir = log[2].dir /\ log[4].dir = log[2].dir

====
